---- MODULE Spec2Model ----
(***************************************************************************)
(* Model of mines.py: the Board (grid of bitset cells, random mine         *)
(* placement, recursive sweep), the Controller (cursor, alive flag,        *)
(* key dispatch) and the main loop that feeds key presses to it.           *)
(***************************************************************************)
EXTENDS Integers, Sequences, FiniteSets

VARIABLES pc, count, placed, draw, grid, cursor, alive,
          stack, pending, ret, before, writes

vars == <<pc, count, placed, draw, grid, cursor, alive,
          stack, pending, ret, before, writes>>

\* the state of a sweep command that is under way, when its calls are
\* followed one by one (they are at rest when a command runs as one step):
\*   stack    the running for loops of sweep_adjacent_cells, innermost last
\*   pending  the cells waiting in a work list
\*   ret      the local `mines` of sweep_one and sweep_many
\*   before   the grid when the command started
\*   writes   how many times line 111 has run in the command
sweep_state == <<stack, pending, ret, before, writes>>

(***************************************************************************)
(* Bounds of the model.                                                    *)
(***************************************************************************)
\* board size given with --size (rows, columns)
Height == 2
Width == 3
\* largest ordinary --mines value tried (besides the two boundary values)
MaxMines == 1
\* the player holds at most this many flags on the board at a time
MaxFlags == 2
\* largest per-axis magnitude of a direction vector handed to move_cursor
MaxStep == 2

(***************************************************************************)
(* Board: cell bits.                                                       *)
(***************************************************************************)
SWEEPED == 1
FLAGGED == 2
MINE == 4

\* cell & bit, for a single-bit mask
BitAnd(cell, bit) == IF (cell \div bit) % 2 = 1 THEN bit ELSE 0
\* cell | bit
BitOr(cell, bit) == IF BitAnd(cell, bit) = bit THEN cell ELSE cell + bit
\* cell ^ bit
BitXor(cell, bit) == IF BitAnd(cell, bit) = bit THEN cell - bit ELSE cell + bit

Cells == (0 .. Height - 1) \X (0 .. Width - 1)

\* np.zeros(size)
zeros == [c \in Cells |-> 0]

\* the order np.ndenumerate walks the grid in: row-major
ndenumerate == [k \in 1 .. Height * Width |-> <<(k - 1) \div Width, (k - 1) % Width>>]

\* the bounds test of cell_mines and sweep_cell
OutOfBounds(coord) ==
    coord[1] < 0 \/ coord[1] >= Height \/ coord[2] < 0 \/ coord[2] >= Width

cell_mines(g, coord) ==
    IF OutOfBounds(coord) THEN 0
    ELSE IF BitAnd(g[coord], MINE) # 0 THEN 1
    ELSE 0

\* get_adjacents without the four diagonal cells
get_adjacents_orthogonal(coord) ==
    << <<coord[1]    , coord[2] - 1>>,
       <<coord[1] - 1, coord[2]    >>,
       <<coord[1] + 1, coord[2]    >>,
       <<coord[1]    , coord[2] + 1>> >>

get_adjacents(coord) ==
    << <<coord[1] - 1, coord[2] - 1>>,
       <<coord[1]    , coord[2] - 1>>,
       <<coord[1] + 1, coord[2] - 1>>,
       <<coord[1] - 1, coord[2]    >>,
       <<coord[1] + 1, coord[2]    >>,
       <<coord[1] - 1, coord[2] + 1>>,
       <<coord[1]    , coord[2] + 1>>,
       <<coord[1] + 1, coord[2] + 1>> >>

RECURSIVE count_adjacent_from(_, _, _)
count_adjacent_from(g, adj, k) ==
    IF k > Len(adj) THEN 0
    ELSE cell_mines(g, adj[k]) + count_adjacent_from(g, adj, k + 1)

count_adjacent(g, coord) == count_adjacent_from(g, get_adjacents(coord), 1)

RECURSIVE mine_count_from(_, _)
\* mine_count leaving out the mines that carry a flag
mine_count_unflagged(g, k) ==
    IF k > Len(ndenumerate) THEN 0
    ELSE (IF BitAnd(g[ndenumerate[k]], FLAGGED) # 0 THEN 0
          ELSE cell_mines(g, ndenumerate[k]))
         + mine_count_from(g, k + 1)

mine_count_from(g, k) ==
    IF k > Len(ndenumerate) THEN 0
    ELSE cell_mines(g, ndenumerate[k]) + mine_count_from(g, k + 1)

mine_count(g) == mine_count_from(g, 1)

RECURSIVE flag_count_from(_, _)
flag_count_from(g, k) ==
    IF k > Len(ndenumerate) THEN 0
    ELSE (IF BitAnd(g[ndenumerate[k]], FLAGGED) # 0 THEN 1 ELSE 0)
         + flag_count_from(g, k + 1)

flag_count(g) == flag_count_from(g, 1)

RECURSIVE correct_flag_count_from(_, _)
\* correct_flag_count adding 1 for every flag, mined or not
correct_flag_count_any(g, k) ==
    IF k > Len(ndenumerate) THEN 0
    ELSE (IF BitAnd(g[ndenumerate[k]], FLAGGED) # 0 THEN 1 ELSE 0)
         + correct_flag_count_from(g, k + 1)

correct_flag_count_from(g, k) ==
    IF k > Len(ndenumerate) THEN 0
    ELSE (IF BitAnd(g[ndenumerate[k]], FLAGGED) # 0
          THEN cell_mines(g, ndenumerate[k])
          ELSE 0)
         + correct_flag_count_from(g, k + 1)

correct_flag_count(g) == correct_flag_count_from(g, 1)

\* the loop of fully_sweeped, with its early return
RECURSIVE fully_sweeped_from(_, _)
\* fully_sweeped passing over a flagged cell without asking for its mine
fully_sweeped_any_flag(g, k) ==
    IF k > Len(ndenumerate) THEN TRUE
    ELSE LET cell == g[ndenumerate[k]] IN
         IF BitAnd(cell, SWEEPED) = 0
         THEN IF BitAnd(cell, FLAGGED) # 0
              THEN fully_sweeped_from(g, k + 1)
              ELSE FALSE
         ELSE fully_sweeped_from(g, k + 1)

fully_sweeped_from(g, k) ==
    IF k > Len(ndenumerate) THEN TRUE
    ELSE LET cell == g[ndenumerate[k]] IN
         IF BitAnd(cell, SWEEPED) = 0
         THEN IF BitAnd(cell, FLAGGED) # 0 /\ cell_mines(g, ndenumerate[k]) > 0
              THEN fully_sweeped_from(g, k + 1)
              ELSE FALSE
         ELSE fully_sweeped_from(g, k + 1)

fully_sweeped(g) == fully_sweeped_from(g, 1)

RECURSIVE mine_triggered_from(_, _)
mine_triggered_from(g, k) ==
    IF k > Len(ndenumerate) THEN FALSE
    ELSE LET cell == g[ndenumerate[k]] IN
         IF BitAnd(cell, SWEEPED) # 0 /\ BitAnd(cell, MINE) # 0 THEN TRUE
         ELSE mine_triggered_from(g, k + 1)

mine_triggered(g) == mine_triggered_from(g, 1)

(***************************************************************************)
(* sweep_cell and sweep_adjacent_cells call each other; both return the    *)
(* grid they leave and the number they return: [grid, mines].              *)
(***************************************************************************)
RECURSIVE sweep_cell(_, _)
RECURSIVE sweep_adjacent_range(_, _, _, _)

\* Op applied to the value of v, with v computed once before Op runs (as a
\* Python local is), and not once for every place Op reads it
Bind(v, Op(_)) == CHOOSE y \in {Op(x) : x \in {v}} : TRUE

\* iterations lo..hi of the for loop of sweep_adjacent_cells, in order; acc
\* is the grid and ret before them, the result the grid and ret after them.
\* The range is run as its first half and then its second half, which is
\* the same sequence of calls, nested less deeply when it is evaluated.
sweep_adjacent_range(acc, adj, lo, hi) ==
    IF lo = hi
    THEN Bind(sweep_cell(acc.grid, adj[lo]),
              LAMBDA r : [grid |-> r.grid, mines |-> acc.mines + r.mines])
    ELSE Bind(sweep_adjacent_range(acc, adj, lo, (lo + hi) \div 2),
              LAMBDA a : sweep_adjacent_range(a, adj, (lo + hi) \div 2 + 1, hi))

sweep_adjacent_cells(g, coord) ==
    sweep_adjacent_range([grid |-> g, mines |-> 0], get_adjacents(coord),
                         1, Len(get_adjacents(coord)))

\* sweep_cell without the FLAGGED test of its early return
sweep_cell_over_flag(g, coord) ==
    IF OutOfBounds(coord) THEN [grid |-> g, mines |-> 0]
    ELSE LET cell == g[coord] IN
         IF BitAnd(cell, SWEEPED) # 0
         THEN [grid |-> g, mines |-> 0]
         ELSE Bind([g EXCEPT ![coord] = BitOr(cell, SWEEPED)],
                   LAMBDA g1 :
                     LET mines == cell_mines(g1, coord)
                         adjacent == count_adjacent(g1, coord)
                     IN IF mines = 0 /\ adjacent = 0
                        THEN [grid |-> sweep_adjacent_cells(g1, coord).grid,
                              mines |-> mines]
                        ELSE [grid |-> g1, mines |-> mines])

\* sweep_cell going on to the adjacent cells whenever the cell has no mine
sweep_cell_flood_numbered(g, coord) ==
    IF OutOfBounds(coord) THEN [grid |-> g, mines |-> 0]
    ELSE LET cell == g[coord] IN
         IF BitAnd(cell, SWEEPED) # 0 \/ BitAnd(cell, FLAGGED) # 0
         THEN [grid |-> g, mines |-> 0]
         ELSE Bind([g EXCEPT ![coord] = BitOr(cell, SWEEPED)],
                   LAMBDA g1 :
                     LET mines == cell_mines(g1, coord)
                     IN IF mines = 0
                        THEN [grid |-> sweep_adjacent_cells(g1, coord).grid,
                              mines |-> mines]
                        ELSE [grid |-> g1, mines |-> mines])

sweep_cell(g, coord) ==
    IF OutOfBounds(coord) THEN [grid |-> g, mines |-> 0]
    ELSE LET cell == g[coord] IN
         IF BitAnd(cell, SWEEPED) # 0 \/ BitAnd(cell, FLAGGED) # 0
         THEN [grid |-> g, mines |-> 0]
         ELSE Bind([g EXCEPT ![coord] = BitOr(cell, SWEEPED)],
                   LAMBDA g1 :
                     LET mines == cell_mines(g1, coord)
                         adjacent == count_adjacent(g1, coord)
                     IN IF mines = 0 /\ adjacent = 0
                        THEN [grid |-> sweep_adjacent_cells(g1, coord).grid,
                              mines |-> mines]
                        ELSE [grid |-> g1, mines |-> mines])

flag_cell(g, coord) == [g EXCEPT ![coord] = BitXor(g[coord], FLAGGED)]

\* reveal_all_mines setting SWEEPED on every cell of the grid
reveal_all_cells(g) == [c \in Cells |-> BitOr(g[c], SWEEPED)]

reveal_all_mines(g) ==
    [c \in Cells |-> IF BitAnd(g[c], MINE) # 0 THEN BitOr(g[c], SWEEPED) ELSE g[c]]

(***************************************************************************)
(* Controller.  Its methods are operators from the fields they read to     *)
(* the fields they write.                                                  *)
(***************************************************************************)
\* move_cursor returning as soon as the row step is out of range
move_cursor_all_or_nothing(cur, direction) ==
    LET new_i == cur[1] + direction[1]
        new_j == cur[2] + direction[2]
    IN IF 0 <= new_i /\ new_i < Height
       THEN <<new_i, IF 0 <= new_j /\ new_j < Width THEN new_j ELSE cur[2]>>
       ELSE cur

move_cursor(cur, direction) ==
    LET new_i == cur[1] + direction[1]
        i == IF 0 <= new_i /\ new_i < Height THEN new_i ELSE cur[1]
        new_j == cur[2] + direction[2]
        j == IF 0 <= new_j /\ new_j < Width THEN new_j ELSE cur[2]
    IN <<i, j>>

\* explode_maybe testing mines >= 0
explode_always(g, al, mines) ==
    IF mines >= 0 THEN [grid |-> reveal_all_mines(g), alive |-> FALSE]
    ELSE [grid |-> g, alive |-> al]

\* explode_maybe without the call of reveal_all_mines
explode_unrevealed(g, al, mines) ==
    IF mines > 0 THEN [grid |-> g, alive |-> FALSE]
    ELSE [grid |-> g, alive |-> al]

\* explode_maybe on grid g with alive flag al: [grid, alive]
explode_maybe(g, al, mines) ==
    IF mines > 0 THEN [grid |-> reveal_all_mines(g), alive |-> FALSE]
    ELSE [grid |-> g, alive |-> al]

sweep_one(g, al, cur) ==
    LET r == sweep_cell(g, cur) IN explode_maybe(r.grid, al, r.mines)

\* sweep_many dropping what sweep_adjacent_cells returns
sweep_many_uncounted(g, al, cur) ==
    LET r1 == sweep_cell(g, cur)
        r2 == sweep_adjacent_cells(r1.grid, cur)
    IN explode_maybe(r2.grid, al, r1.mines)

\* sweep_many without the call of sweep_adjacent_cells
sweep_many_cursor_only(g, al, cur) ==
    LET r1 == sweep_cell(g, cur)
    IN explode_maybe(r1.grid, al, r1.mines)

sweep_many(g, al, cur) ==
    LET r1 == sweep_cell(g, cur)
        r2 == sweep_adjacent_cells(r1.grid, cur)
    IN explode_maybe(r2.grid, al, r1.mines + r2.mines)

flag(g, cur) == flag_cell(g, cur)

(***************************************************************************)
(* Setup: main parses the arguments, builds the board and places the       *)
(* mines; add_random_mines is one step per random draw.                    *)
(***************************************************************************)
\* the --mines values tried: the ordinary ones, all cells, one more than all
Counts == (0 .. MaxMines) \cup {Height * Width, Height * Width + 1}

\* no draw is held outside an iteration of the for loop
NoDraw == <<-1, -1>>

\* The Controller reads only the board's height and width when it is
\* built, so its fields are given their initial values here.
Init ==
    /\ pc = "for"
    /\ count \in Counts
    /\ placed = 0
    /\ draw = NoDraw
    /\ grid = zeros
    /\ cursor = <<Height \div 2, Width \div 2>>
    /\ alive = TRUE
    /\ stack = <<>>
    /\ pending = {}
    /\ ret = 0
    /\ before = zeros
    /\ writes = 0

\* for _ in range(count): the first draw of an iteration
ForNext ==
    /\ pc = "for"
    /\ placed < count
    /\ draw' \in Cells
    /\ pc' = "while"
    /\ UNCHANGED <<count, placed, grid, cursor, alive>>
    /\ UNCHANGED sweep_state

\* the loop is over: add_random_mines returns and play begins
ForEnd ==
    /\ pc = "for"
    /\ placed >= count
    /\ pc' = "play"
    /\ UNCHANGED <<count, placed, draw, grid, cursor, alive>>
    /\ UNCHANGED sweep_state

\* while self.grid[i,j] == self.MINE: draw again
Reroll ==
    /\ pc = "while"
    /\ grid[draw] = MINE
    /\ draw' \in Cells
    /\ UNCHANGED <<pc, count, placed, grid, cursor, alive>>
    /\ UNCHANGED sweep_state

\* the mine placed without the while loop that draws again on a mined cell
PlaceUnchecked ==
    /\ pc = "while"
    /\ grid' = [grid EXCEPT ![draw] = MINE]
    /\ placed' = placed + 1
    /\ draw' = NoDraw
    /\ pc' = "for"
    /\ UNCHANGED <<count, cursor, alive>>
    /\ UNCHANGED sweep_state

\* self.grid[i,j] = self.MINE
Place ==
    /\ pc = "while"
    /\ grid[draw] # MINE
    /\ grid' = [grid EXCEPT ![draw] = MINE]
    /\ placed' = placed + 1
    /\ draw' = NoDraw
    /\ pc' = "for"
    /\ UNCHANGED <<count, cursor, alive>>
    /\ UNCHANGED sweep_state

add_random_mines == ForNext \/ Reroll \/ Place

(***************************************************************************)
(* Play: the Controller's commands.                                        *)
(***************************************************************************)
MoveCursor(direction) ==
    /\ pc = "play"
    /\ cursor' = move_cursor(cursor, direction)
    /\ UNCHANGED <<pc, count, placed, draw, grid, alive>>
    /\ UNCHANGED sweep_state

\* the player has MaxFlags flags to plant
Flag ==
    /\ pc = "play"
    /\ BitAnd(grid[cursor], FLAGGED) = 0 => flag_count(grid) < MaxFlags
    /\ grid' = flag(grid, cursor)
    /\ UNCHANGED <<pc, count, placed, draw, cursor, alive>>
    /\ UNCHANGED sweep_state

SweepOne ==
    /\ pc = "play"
    /\ LET r == sweep_one(grid, alive, cursor) IN
         /\ grid' = r.grid
         /\ alive' = r.alive
    /\ UNCHANGED <<pc, count, placed, draw, cursor>>
    /\ UNCHANGED sweep_state

SweepMany ==
    /\ pc = "play"
    /\ LET r == sweep_many(grid, alive, cursor) IN
         /\ grid' = r.grid
         /\ alive' = r.alive
    /\ UNCHANGED <<pc, count, placed, draw, cursor>>
    /\ UNCHANGED sweep_state

\* key_press returns False and the loop of main breaks
Quit ==
    /\ pc = "play"
    /\ pc' = "done"
    /\ UNCHANGED <<count, placed, draw, grid, cursor, alive>>
    /\ UNCHANGED sweep_state

\* a key bound to nothing
Ignore ==
    /\ pc = "play"
    /\ UNCHANGED vars

Keys == {"h", "KEY_LEFT", "l", "KEY_RIGHT", "k", "KEY_UP", "j", "KEY_DOWN",
         "/", "x", " ", "\n", "q", "other"}

\* one turn of the loop of main: getch gives c, key_press dispatches it
key_press(c) ==
    IF c \in {"h", "KEY_LEFT"} THEN MoveCursor(<<0, -1>>)
    ELSE IF c \in {"l", "KEY_RIGHT"} THEN MoveCursor(<<0, 1>>)
    ELSE IF c \in {"k", "KEY_UP"} THEN MoveCursor(<<-1, 0>>)
    ELSE IF c \in {"j", "KEY_DOWN"} THEN MoveCursor(<<1, 0>>)
    ELSE IF c \in {"/", "x"} THEN Flag
    ELSE IF c = " " THEN SweepOne
    ELSE IF c = "\n" THEN SweepMany
    ELSE IF c = "q" THEN Quit
    ELSE Ignore

KeyPress == \E c \in Keys : key_press(c)

Next == add_random_mines \/ ForEnd \/ KeyPress

Spec == Init /\ [][Next]_vars

(***************************************************************************)
(* The Controller driven directly by a client: move_cursor takes any       *)
(* direction vector.                                                       *)
(***************************************************************************)
Directions == (-MaxStep .. MaxStep) \X (-MaxStep .. MaxStep)

MoveAny == \E direction \in Directions : MoveCursor(direction)

NextAPI == add_random_mines \/ ForEnd \/ MoveAny \/ Flag \/ SweepOne \/ SweepMany

SpecAPI == Init /\ [][NextAPI]_vars

(***************************************************************************)
(* The sweep commands followed call by call.  One step runs one call of    *)
(* sweep_cell from its entry to the point where it either returns or       *)
(* enters the for loop of sweep_adjacent_cells (lines 106-116); the loops  *)
(* under way are the frames of stack.                                      *)
(***************************************************************************)
\* sweep_cell_enter without the SWEEPED test of its early return
sweep_cell_enter_revisit(g, coord) ==
    IF OutOfBounds(coord)
    THEN [grid |-> g, mines |-> 0, wrote |-> FALSE, fill |-> FALSE]
    ELSE LET cell == g[coord] IN
         IF BitAnd(cell, FLAGGED) # 0
         THEN [grid |-> g, mines |-> 0, wrote |-> FALSE, fill |-> FALSE]
         ELSE LET g1 == [g EXCEPT ![coord] = BitOr(cell, SWEEPED)]
                  mines == cell_mines(g1, coord)
                  adjacent == count_adjacent(g1, coord)
              IN [grid |-> g1, mines |-> mines, wrote |-> TRUE,
                  fill |-> mines = 0 /\ adjacent = 0]

\* sweep_cell_enter going on to the adjacent cells of a flagged cell too
sweep_cell_enter_through_flag(g, coord) ==
    IF OutOfBounds(coord)
    THEN [grid |-> g, mines |-> 0, wrote |-> FALSE, fill |-> FALSE]
    ELSE LET cell == g[coord] IN
         IF BitAnd(cell, SWEEPED) # 0
         THEN [grid |-> g, mines |-> 0, wrote |-> FALSE, fill |-> FALSE]
         ELSE IF BitAnd(cell, FLAGGED) # 0
         THEN [grid |-> g, mines |-> 0, wrote |-> FALSE,
               fill |-> cell_mines(g, coord) = 0 /\ count_adjacent(g, coord) = 0]
         ELSE LET g1 == [g EXCEPT ![coord] = BitOr(cell, SWEEPED)]
                  mines == cell_mines(g1, coord)
                  adjacent == count_adjacent(g1, coord)
              IN [grid |-> g1, mines |-> mines, wrote |-> TRUE,
                  fill |-> mines = 0 /\ adjacent = 0]

\* sweep_cell(coord) on grid g up to line 115: the grid it leaves, the value
\* it will return, whether line 111 ran, and whether it goes on to call
\* sweep_adjacent_cells(coord)
sweep_cell_enter(g, coord) ==
    IF OutOfBounds(coord)
    THEN [grid |-> g, mines |-> 0, wrote |-> FALSE, fill |-> FALSE]
    ELSE LET cell == g[coord] IN
         IF BitAnd(cell, SWEEPED) # 0 \/ BitAnd(cell, FLAGGED) # 0
         THEN [grid |-> g, mines |-> 0, wrote |-> FALSE, fill |-> FALSE]
         ELSE LET g1 == [g EXCEPT ![coord] = BitOr(cell, SWEEPED)]
                  mines == cell_mines(g1, coord)
                  adjacent == count_adjacent(g1, coord)
              IN [grid |-> g1, mines |-> mines, wrote |-> TRUE,
                  fill |-> mines = 0 /\ adjacent = 0]

\* a for loop of sweep_adjacent_cells(coord) about to run its iteration k;
\* counted says that the caller uses the sum it returns (sweep_many does,
\* line 172; sweep_cell does not, line 116)
Frame(coord, counted) == [coord |-> coord, k |-> 1, counted |-> counted]

\* the stack after sweep_cell_enter gave e at coord
Entered(stk, e, coord) ==
    IF e.fill THEN Append(stk, Frame(coord, FALSE)) ELSE stk

\* sweep_one, line 166: mines = self.board.sweep_cell(self.get_cursor())
BeginSweepOne ==
    /\ pc = "play"
    /\ LET e == sweep_cell_enter(grid, cursor) IN
         /\ grid' = e.grid
         /\ ret' = e.mines
         /\ writes' = IF e.wrote THEN 1 ELSE 0
         /\ stack' = Entered(<<>>, e, cursor)
    /\ before' = grid
    /\ pc' = "sweep_one"
    /\ UNCHANGED <<count, placed, draw, cursor, alive, pending>>

\* sweep_many, line 171: mines = self.board.sweep_cell(self.get_cursor())
BeginSweepMany ==
    /\ pc = "play"
    /\ LET e == sweep_cell_enter(grid, cursor) IN
         /\ grid' = e.grid
         /\ ret' = e.mines
         /\ writes' = IF e.wrote THEN 1 ELSE 0
         /\ stack' = Entered(<<>>, e, cursor)
    /\ before' = grid
    /\ pc' = "sweep_many_cell"
    /\ UNCHANGED <<count, placed, draw, cursor, alive, pending>>

\* one iteration of the innermost for loop, line 123:
\* ret += self.sweep_cell(adjacent).  The value the call returns is known
\* when it enters, and is added then.
LoopStep ==
    /\ stack # <<>>
    /\ LET top == stack[Len(stack)]
           adjacent == get_adjacents(top.coord)[top.k]
           e == sweep_cell_enter(grid, adjacent)
       IN /\ top.k <= Len(get_adjacents(top.coord))
          /\ grid' = e.grid
          /\ ret' = IF top.counted THEN ret + e.mines ELSE ret
          /\ writes' = IF e.wrote THEN writes + 1 ELSE writes
          /\ stack' = Entered([stack EXCEPT ![Len(stack)].k = top.k + 1],
                              e, adjacent)
    /\ UNCHANGED <<pc, count, placed, draw, cursor, alive, pending, before>>

\* the innermost for loop is over: sweep_adjacent_cells returns, line 124
LoopEnd ==
    /\ stack # <<>>
    /\ stack[Len(stack)].k > Len(get_adjacents(stack[Len(stack)].coord))
    /\ stack' = SubSeq(stack, 1, Len(stack) - 1)
    /\ UNCHANGED <<pc, count, placed, draw, grid, cursor, alive,
                   pending, ret, before, writes>>

\* sweep_many, line 172: mines += self.board.sweep_adjacent_cells(cursor)
SweepManyAdjacent ==
    /\ pc = "sweep_many_cell"
    /\ stack = <<>>
    /\ stack' = <<Frame(cursor, TRUE)>>
    /\ pc' = "sweep_many_adjacent"
    /\ UNCHANGED <<count, placed, draw, grid, cursor, alive,
                   pending, ret, before, writes>>

\* lines 167 and 173: self.explode_maybe(mines), and the command is over
Explode ==
    /\ pc \in {"sweep_one", "sweep_many_adjacent"}
    /\ stack = <<>>
    /\ LET r == explode_maybe(grid, alive, ret) IN
         /\ grid' = r.grid
         /\ alive' = r.alive
    /\ pc' = "play"
    /\ ret' = 0
    /\ before' = zeros
    /\ writes' = 0
    /\ UNCHANGED <<count, placed, draw, cursor, stack, pending>>

\* what the interpreter does next while a sweep command is under way
SweepRun == LoopStep \/ LoopEnd \/ SweepManyAdjacent \/ Explode

MoveKey == \E c \in {"h", "l", "k", "j"} : key_press(c)

NextSweep ==
    \/ add_random_mines
    \/ ForEnd
    \/ MoveKey
    \/ Flag
    \/ BeginSweepOne
    \/ BeginSweepMany
    \/ SweepRun

\* a call that has started runs on: the code is synchronous
SpecSweep == Init /\ [][NextSweep]_vars /\ WF_vars(SweepRun)

InSweep == pc \in {"sweep_one", "sweep_many_cell", "sweep_many_adjacent"}

(***************************************************************************)
(* The fill of sweep_one run from a work list, in any order: the cells to  *)
(* call sweep_cell on wait in pending and any of them is taken next.  A    *)
(* cell waits once however often it was added, and the neighbours outside  *)
(* the board are not added: a call on a cell visited before, or outside,   *)
(* returns at line 107 or 110.                                             *)
(***************************************************************************)
Neighbours(coord) ==
    {get_adjacents(coord)[k] : k \in 1 .. Len(get_adjacents(coord))} \cap Cells

\* sweep_one, line 166, with the fill left to the work list
FillCall ==
    /\ pc = "play"
    /\ LET e == sweep_cell_enter(grid, cursor) IN
         /\ grid' = e.grid
         /\ ret' = e.mines
         /\ writes' = IF e.wrote THEN 1 ELSE 0
         /\ pending' = IF e.fill THEN Neighbours(cursor) ELSE {}
    /\ before' = grid
    /\ pc' = "fill"
    /\ UNCHANGED <<count, placed, draw, cursor, alive, stack>>

\* sweep_cell on any waiting cell; what it returns is dropped (line 116)
FillStep ==
    /\ pc = "fill"
    /\ \E coord \in pending :
         LET e == sweep_cell_enter(grid, coord) IN
         /\ grid' = e.grid
         /\ writes' = IF e.wrote THEN writes + 1 ELSE writes
         /\ pending' = (pending \ {coord})
                        \cup (IF e.fill THEN Neighbours(coord) ELSE {})
    /\ UNCHANGED <<pc, count, placed, draw, cursor, alive, stack, ret, before>>

\* the work list is empty: line 167, self.explode_maybe(mines)
FillEnd ==
    /\ pc = "fill"
    /\ pending = {}
    /\ LET r == explode_maybe(grid, alive, ret) IN
         /\ grid' = r.grid
         /\ alive' = r.alive
    /\ pc' = "play"
    /\ ret' = 0
    /\ before' = zeros
    /\ writes' = 0
    /\ UNCHANGED <<count, placed, draw, cursor, stack, pending>>

NextAnyOrder ==
    \/ add_random_mines
    \/ ForEnd
    \/ MoveKey
    \/ Flag
    \/ FillCall
    \/ FillStep
    \/ FillEnd

SpecAnyOrder == Init /\ [][NextAnyOrder]_vars

(***************************************************************************)
(* Vocabulary of the properties, stated on the grid itself.                *)
(***************************************************************************)
Swept(g, c) == g[c] % 2 = 1
Flagged(g, c) == (g[c] \div 2) % 2 = 1
Mined(g, c) == (g[c] \div 4) % 2 = 1

Abs(n) == IF n < 0 THEN -n ELSE n

\* c and d are distinct and touch by an edge or a corner
Adjacent(c, d) == c # d /\ Abs(c[1] - d[1]) <= 1 /\ Abs(c[2] - d[2]) <= 1

\* no mine on c and none around it
Blank(g, c) == ~Mined(g, c) /\ \A d \in Cells : Adjacent(c, d) => ~Mined(g, d)

\* the cells of P joined to S by 8-adjacent steps inside P, with S
RECURSIVE Connected(_, _)
Connected(S, P) ==
    LET T == S \cup {d \in P : \E c \in S : Adjacent(c, d)}
    IN IF T = S THEN S ELSE Connected(T, P)

Border(S) == {d \in Cells : \E c \in S : Adjacent(c, d)}

\* the 8-connected region of blank cells that holds c
BlankRegion(g, c) == Connected({c}, {d \in Cells : Blank(g, d)})

\* the cells reached from c over cells that are blank, unswept and unflagged
FillRegion(g, c) ==
    Connected({c}, {d \in Cells : Blank(g, d) /\ ~Swept(g, d) /\ ~Flagged(g, d)})

\* sweep_cell(c) floods: c is in bounds, unswept, unflagged and blank
Floods(g, c) == c \in Cells /\ ~Swept(g, c) /\ ~Flagged(g, c) /\ Blank(g, c)

NoMineSweptBy(g, g2) == \A d \in Cells : Mined(g, d) /\ ~Swept(g, d) => ~Swept(g2, d)

MineCells(g) == {c \in Cells : Mined(g, c)}

(***************************************************************************)
(* C1 as stated: in every reachable state, sweep_cell(c) on an in-bounds,  *)
(* unswept, unflagged blank cell c leaves SWEPT on every cell of the       *)
(* 8-connected region of blank cells holding c and on every cell adjacent  *)
(* to that region, and sweeps no mine.                                     *)
(***************************************************************************)
C1_FloodWholeRegion ==
    \A c \in Cells : Floods(grid, c) =>
        LET after == sweep_cell(grid, c).grid
            region == BlankRegion(grid, c)
        IN /\ \A d \in region \cup Border(region) : Swept(after, d)
           /\ NoMineSweptBy(grid, after)

(***************************************************************************)
(* C1 amended: sweep_cell(c) on an in-bounds, unswept, unflagged blank     *)
(* cell c leaves SWEPT on every cell reached from c by 8-adjacent steps    *)
(* over cells that are blank, unswept and unflagged when the call starts,  *)
(* and on every unflagged cell adjacent to such a cell; it sweeps no mine. *)
(***************************************************************************)
C1_FloodReachable ==
    \A c \in Cells : Floods(grid, c) =>
        LET after == sweep_cell(grid, c).grid
            region == FillRegion(grid, c)
        IN /\ \A d \in region \cup Border(region) :
                  ~Flagged(grid, d) => Swept(after, d)
           /\ NoMineSweptBy(grid, after)

\* a fill is about to start in a region where a blank, unswept, unflagged
\* cell lies beyond cells swept earlier, and a flagged cell lies in its way
C1_Witness ==
    /\ pc = "play"
    /\ Floods(grid, cursor)
    /\ \E d \in BlankRegion(grid, cursor) :
           /\ ~Swept(grid, d) /\ ~Flagged(grid, d)
           /\ d \notin FillRegion(grid, cursor) \cup Border(FillRegion(grid, cursor))
    /\ \E d \in Border(FillRegion(grid, cursor)) : Flagged(grid, d)

(***************************************************************************)
(* C2 as stated: once alive is false, no command changes the grid.         *)
(***************************************************************************)
C2_IgnoredWhenDead == [][(pc = "play" /\ ~alive) => grid' = grid]_vars

(***************************************************************************)
(* C3: alive is true initially; it changes only from true to false, only   *)
(* in a sweep_one or sweep_many step, and only when an unswept, unflagged  *)
(* mine lies under the cursor or next to it; once false it stays false.    *)
(***************************************************************************)
MineUncoveredAt(g, cur) ==
    \E c \in Cells : /\ c = cur \/ Adjacent(c, cur)
                     /\ Mined(g, c) /\ ~Swept(g, c) /\ ~Flagged(g, c)

C3_AliveStep ==
    /\ ~alive => ~alive'
    /\ alive' # alive =>
          /\ SweepOne \/ SweepMany
          /\ MineUncoveredAt(grid, cursor)
          /\ \E c \in Cells : Mined(grid', c) /\ Swept(grid', c)

C3_Alive == (alive = TRUE) /\ [][C3_AliveStep]_vars

\* the player is dead, after flagging something first
C3_Witness == pc = "play" /\ ~alive /\ \E c \in Cells : Flagged(grid, c) /\ ~Mined(grid, c)

(***************************************************************************)
(* C4: in every reachable state mine_triggered() is true if and only if    *)
(* alive is false.                                                         *)
(***************************************************************************)
C4_TriggeredIffDead == mine_triggered(grid) <=> ~alive

\* the player died after a fill had run, and the mines were revealed
C4_Witness ==
    /\ ~alive
    /\ mine_triggered(grid)
    /\ \E c \in Cells : Blank(grid, c) /\ Swept(grid, c)
    /\ \E c \in Cells : ~Mined(grid, c) /\ ~Swept(grid, c)

(***************************************************************************)
(* C5: sweep_cell(coord) returns 0 and leaves the grid unchanged when      *)
(* coord is out of bounds, or its cell is swept, or its cell is flagged.   *)
(***************************************************************************)
Around == (-1 .. Height) \X (-1 .. Width)

C5_SweepNoOp ==
    \A coord \in Around :
        (coord \notin Cells \/ Swept(grid, coord) \/ Flagged(grid, coord))
            => sweep_cell(grid, coord) = [grid |-> grid, mines |-> 0]

\* the cursor is on a flagged, unswept mine, and another cell is swept
C5_Witness ==
    /\ pc = "play"
    /\ Flagged(grid, cursor) /\ ~Swept(grid, cursor) /\ Mined(grid, cursor)
    /\ \E c \in Cells : Swept(grid, c) /\ ~Flagged(grid, c)

C7_NoFlagOnSwept ==
    [][\A c \in Cells : Swept(grid, c) => (Flagged(grid', c) <=> Flagged(grid, c))]_vars

(***************************************************************************)
(* C8: the cursor starts at (height // 2, width // 2) and stays inside the *)
(* board under move_cursor calls with any direction vector; move_cursor    *)
(* moves each axis by its own step when that stays in range and leaves the *)
(* axis alone otherwise.                                                   *)
(***************************************************************************)
AxisMove(at, step, size) == IF at + step \in 0 .. size - 1 THEN at + step ELSE at

C8_Cursor ==
    /\ pc \in {"for", "while"} => cursor = <<Height \div 2, Width \div 2>>
    /\ cursor \in Cells
    /\ \A d \in Directions :
           move_cursor(cursor, d) =
               <<AxisMove(cursor[1], d[1], Height), AxisMove(cursor[2], d[2], Width)>>

\* the cursor has been driven into the far corner
C8_Witness == pc = "play" /\ cursor = <<Height - 1, Width - 1>>

(***************************************************************************)
(* C9: with 0 <= count <= height*width, add_random_mines on the all-zero   *)
(* grid has placed one mine per finished iteration, and ends with exactly  *)
(* count cells carrying MINE.                                              *)
(***************************************************************************)
C9_ExactMines ==
    count <= Height * Width =>
        /\ pc \in {"for", "while"} => Cardinality(MineCells(grid)) = placed
        /\ pc = "play" => Cardinality(MineCells(grid)) = count

\* every cell was asked to be mined, and is
C9_Witness == pc = "play" /\ count = Height * Width /\ MineCells(grid) = Cells

(***************************************************************************)
(* C10 as stated: a mine count >= height*width is rejected at setup; mine  *)
(* placement is not entered and play does not begin.                       *)
(***************************************************************************)
C10_TooManyRejected == count >= Height * Width => pc \notin {"while", "play"}

C12_FlagCounts ==
    /\ flag_count(grid) =
           correct_flag_count(grid)
           + Cardinality({c \in Cells : Flagged(grid, c) /\ ~Mined(grid, c)})
    /\ correct_flag_count(grid) <= mine_count(grid)

\* one flag stands on a mine and another on a cell without one
C12_Witness ==
    /\ pc = "play"
    /\ \E c \in Cells : Flagged(grid, c) /\ Mined(grid, c)
    /\ \E c \in Cells : Flagged(grid, c) /\ ~Mined(grid, c)

(***************************************************************************)
(* C13: sweep_many leaves SWEPT on the cursor cell and on each of its      *)
(* in-bounds neighbours unless the cell is flagged, and alive becomes      *)
(* false in the command if and only if a mine among the cursor cell and    *)
(* its in-bounds neighbours is unswept and unflagged when it starts.       *)
(***************************************************************************)
C13_SweepMany ==
    pc = "play" =>
        LET r == sweep_many(grid, alive, cursor) IN
        /\ \A c \in Cells :
               (c = cursor \/ Adjacent(c, cursor)) /\ ~Flagged(grid, c)
                   => Swept(r.grid, c)
        /\ \A c \in Cells : Flagged(r.grid, c) <=> Flagged(grid, c)
        /\ (alive /\ ~r.alive) <=> MineUncoveredAt(grid, cursor)
        /\ ~alive => ~r.alive

\* sweep_many is about to kill from a swept cell: the mine is a neighbour,
\* and another neighbour is flagged
C13_Witness ==
    /\ pc = "play" /\ alive
    /\ Swept(grid, cursor)
    /\ \E c \in Cells : Adjacent(c, cursor) /\ Mined(grid, c)
                        /\ ~Swept(grid, c) /\ ~Flagged(grid, c)
    /\ \E c \in Cells : Adjacent(c, cursor) /\ Flagged(grid, c)

C15_DeadAllRevealed == ~alive => \A c \in Cells : Mined(grid, c) => Swept(grid, c)

\* dead on a board of several mines, one of them flagged and not the one
\* stepped on
C15_Witness ==
    /\ pc = "play" /\ ~alive
    /\ Cardinality(MineCells(grid)) > 1
    /\ \E c \in Cells : c # cursor /\ Mined(grid, c) /\ Flagged(grid, c)

(***************************************************************************)
(* The two accounts of a sweep command agree: followed call by call, a     *)
(* command ends with the grid, the count and the alive flag that           *)
(* sweep_one and sweep_many give in one step.                              *)
(***************************************************************************)
SweepRunAgrees ==
    /\ pc = "sweep_one" /\ stack = <<>> =>
           /\ [grid |-> grid, mines |-> ret] = sweep_cell(before, cursor)
           /\ explode_maybe(grid, alive, ret) = sweep_one(before, alive, cursor)
    /\ pc = "sweep_many_cell" /\ stack = <<>> =>
           [grid |-> grid, mines |-> ret] = sweep_cell(before, cursor)
    /\ pc = "sweep_many_adjacent" /\ stack = <<>> =>
           explode_maybe(grid, alive, ret) = sweep_many(before, alive, cursor)

(***************************************************************************)
(* C16: every sweep command that starts comes to its end, so every call of *)
(* sweep_cell returns: a command under way always has a next step, and     *)
(* each step lowers Remaining, a natural number that bounds the steps      *)
(* still to run; no loop is left when a command is over.  While it runs, the calls only ever set SWEPT, on one     *)
(* cell at a time that did not have it; line 111 has run exactly once for  *)
(* each cell swept since the command started and never twice for a cell,   *)
(* hence at most height*width times, and the loops under way are never     *)
(* more than the cells swept, plus the loop of sweep_many itself.          *)
(***************************************************************************)
SweptSince(g0, g) == {c \in Cells : Swept(g, c) /\ ~Swept(g0, c)}

\* the steps of a whole for loop of sweep_adjacent_cells by itself: one for
\* each adjacent cell and one for its return
LoopSteps == Len(get_adjacents(<<0, 0>>)) + 1

\* the steps a loop under way still takes by itself
LoopLeft(frame) == LoopSteps + 1 - frame.k

RECURSIVE StackLeft(_)
StackLeft(stk) ==
    IF stk = <<>> THEN 0 ELSE LoopLeft(Head(stk)) + StackLeft(Tail(stk))

\* the steps that follow the loops under way: explode_maybe, and for
\* sweep_many the call of sweep_adjacent_cells with its loop before it
TailLeft ==
    IF pc = "sweep_many_cell" THEN LoopSteps + 2
    ELSE IF pc \in {"sweep_one", "sweep_many_adjacent"} THEN 1
    ELSE 0

\* every cell that can still be swept may start a loop of its own
Remaining ==
    StackLeft(stack) + TailLeft
    + LoopSteps * Cardinality({c \in Cells : ~Swept(grid, c) /\ ~Flagged(grid, c)})

\* a step of SweepRun can be taken: the innermost loop is at an iteration
\* or at its end, or no loop is left and the command goes on after its call
CanStep ==
    IF stack # <<>>
    THEN stack[Len(stack)].k \in 1 .. Len(get_adjacents(stack[Len(stack)].coord)) + 1
    ELSE pc \in {"sweep_one", "sweep_many_cell", "sweep_many_adjacent"}

C16_WriteOnce ==
    /\ InSweep => /\ writes = Cardinality(SweptSince(before, grid))
                  /\ writes <= Height * Width
                  /\ Len(stack) <= writes + 1
                  /\ CanStep
                  /\ Remaining >= 0
    /\ ~InSweep => stack = <<>>

C16_CallStep ==
    InSweep =>
        /\ Remaining' < Remaining
        /\ InSweep' =>
               \A c \in Cells : grid'[c] # grid[c] =>
                   /\ ~Swept(grid, c)
                   /\ grid'[c] = grid[c] + SWEEPED
                   /\ \A d \in Cells \ {c} : grid'[d] = grid[d]

C17_AnyOrder ==
    pc = "fill" /\ pending = {} =>
        /\ grid = sweep_cell(before, cursor).grid
        /\ ret = sweep_cell(before, cursor).mines

\* a fill run from the work list has ended after sweeping four cells or
\* more, around a flagged cell it left alone
C17_Witness ==
    /\ pc = "fill" /\ pending = {}
    /\ writes >= 4
    /\ \E c \in Cells : Flagged(grid, c) /\ ~Swept(grid, c) /\ Blank(grid, c)

(***************************************************************************)
(* C18: sweep_cell on an in-bounds, unswept, unflagged cell that is a mine *)
(* or has a mine next to it sets SWEPT on that cell and changes no other   *)
(* cell; it returns 1 if the cell is a mine and 0 otherwise.               *)
(***************************************************************************)
C18_SweepSingle ==
    \A c \in Cells :
        ~Swept(grid, c) /\ ~Flagged(grid, c) /\ ~Blank(grid, c) =>
            sweep_cell(grid, c) =
                [grid |-> [grid EXCEPT ![c] = grid[c] + SWEEPED],
                 mines |-> IF Mined(grid, c) THEN 1 ELSE 0]

\* the cursor is on an unswept, unflagged numbered cell with an unswept,
\* unflagged cell without a mine next to it
C18_Witness ==
    /\ pc = "play"
    /\ ~Swept(grid, cursor) /\ ~Flagged(grid, cursor)
    /\ ~Mined(grid, cursor) /\ ~Blank(grid, cursor)
    /\ \E c \in Cells : /\ Adjacent(c, cursor)
                        /\ ~Mined(grid, c) /\ ~Swept(grid, c) /\ ~Flagged(grid, c)

(***************************************************************************)
(* C19 as stated: in no reachable state are fully_sweeped() and            *)
(* mine_triggered() both true.                                             *)
(***************************************************************************)
C19_WinLossExclusive == ~(fully_sweeped(grid) /\ mine_triggered(grid))

(***************************************************************************)
(* C20 as stated: in no state reachable by flag, sweep_one and sweep_many  *)
(* commands does a cell have both SWEPT and FLAGGED set.                   *)
(***************************************************************************)
C20_NeverSweptAndFlagged == \A c \in Cells : ~(Swept(grid, c) /\ Flagged(grid, c))

====
